---- MODULE Spec2Model ----
(***************************************************************************)
(* A model of wnutils/plot/xml.py: the six plotting functions, each as a   *)
(* sequence of steps (one per statement that calls a collaborator or the   *)
(* matplotlib backend).  The calls made to the dataset reader (wx), the    *)
(* name resolver (wu), the parameter helper (plp) and pyplot (plt) are     *)
(* recorded, in order, in the variable calls.                              *)
(***************************************************************************)
EXTENDS Integers, Sequences, FiniteSets, TLC

\* ------------------------------------------------------------------ bounds
MaxFiles == 3      \* longest list of files given to the multi-file plot
MaxSpecies == 2    \* longest list of species given to a multi-species plot
NZones == 2        \* zones in every dataset (the length of every series)

\* ------------------------------------------------------- numpy float values
\* A float is a pair <<n, d>> standing for n/d (n >= 0; d > 0, reduced),
\* <<1, 0>> is inf and <<0, 0>> is nan: numpy's true division of a float
\* array by zero yields inf or nan (with a RuntimeWarning), not an exception.
Inf == <<1, 0>>
NaN == <<0, 0>>

RECURSIVE Gcd(_, _)
Gcd(a, b) == IF b = 0 THEN a ELSE Gcd(b, a % b)

Norm(n, d) == IF n = 0 THEN <<0, 1>> ELSE <<n \div Gcd(n, d), d \div Gcd(n, d)>>

\* float(v) of an integer option value.
ToFloat(v) == <<v, 1>>

IsNaN(a) == a = NaN
IsInf(a) == a = Inf
IsZero(a) == a[1] = 0 /\ a[2] # 0

\* One element of  x /= f  on a float array.
Div(a, f) ==
    IF IsNaN(a) \/ IsNaN(f) THEN NaN
    ELSE IF IsZero(f) THEN (IF IsZero(a) THEN NaN ELSE Inf)
    ELSE IF IsInf(a) THEN (IF IsInf(f) THEN NaN ELSE Inf)
    ELSE IF IsInf(f) THEN <<0, 1>>
    ELSE Norm(a[1] * f[2], a[2] * f[1])

\* x /= float(kwargs[key]) : every element divided, in zone order.
InPlaceDivide(series, factor) ==
    [z \in 1..Len(series) |-> Div(series[z], ToFloat(factor))]

\* ------------------------------------------------ the collaborators' data
Files == {"a.xml", "b.xml"}
Props == {"time", "mass"}
Species == {"c12", "o16"}

FileNo(f) == IF f = "a.xml" THEN 1 ELSE 2
SpNo(s) == IF s = "c12" THEN 1 ELSE 2

\* wx.get_properties_in_zones_as_floats(file, names)[p]
PropData(f, p) ==
    [z \in 1..NZones |->
        IF p = "time" THEN ToFloat((z - 1) * 4 * FileNo(f))
                      ELSE ToFloat(z * 8 + FileNo(f))]

\* wx.get_mass_fractions_in_zones(file, names)[s]
MassFractionData(f, s) ==
    [z \in 1..NZones |-> Norm(1, z + SpNo(s) + 2 * FileNo(f))]

\* wx.get_abundances_vs_nucleon_number_in_zones(file, nucleon, zone_xpath)
AbundanceData(f, nucleon) ==
    << [z \in 1..NZones |-> Norm(FileNo(f), z + 1)],
       [z \in 1..NZones |-> Norm(1, z + 3)] >>

\* wu.get_latex_names(names)[s]
LatexName(s) == IF s = "c12" THEN "$^{12}$C" ELSE "$^{16}$O"

\* ----------------------------------------------------------- Python values
Str(s) == [t |-> "str", s |-> s, b |-> FALSE]
Bool(b) == [t |-> "bool", s |-> "", b |-> b]
NoValue == Str("")

\* legend_labels: None, or a list.
None == [some |-> FALSE, val |-> <<>>]
List(v) == [some |-> TRUE, val |-> v]
\* Python truth value of  legend_labels  (None and [] are both false).
Truthy(ll) == ll.some /\ Len(ll.val) # 0

Range(s) == {s[k] : k \in 1..Len(s)}

SeqsUpTo(S, n) == UNION {[1..k -> S] : k \in 0..n}

LabelList(n) == [k \in 1..n |-> IF k = 1 THEN "first" ELSE IF k = 2 THEN "second"
                                 ELSE IF k = 3 THEN "third" ELSE "later"]


\* ------------------------------------------------------------- the inputs
Keys == {"xfactor", "yfactor", "use_latex_names", "xlabel", "ylabel"}
FactorValues == {0, 2}
LatexFlags == {Str("yes"), Str("no"), Bool(TRUE)}

\* **kwargs: the keys present and their values (an absent key holds a filler).
KwargsOver(allowed) ==
    { kw \in [keys : SUBSET allowed,
              xfactor : FactorValues \cup {1},
              yfactor : FactorValues \cup {1},
              use_latex_names : LatexFlags \cup {NoValue},
              xlabel : {"", "my x"},
              ylabel : {"", "my y"}] :
        /\ ("xfactor" \in kw.keys) = (kw.xfactor \in FactorValues)
        /\ ("yfactor" \in kw.keys) = (kw.yfactor \in FactorValues)
        /\ ("use_latex_names" \in kw.keys) = (kw.use_latex_names \in LatexFlags)
        /\ ("xlabel" \in kw.keys) = (kw.xlabel # "")
        /\ ("ylabel" \in kw.keys) = (kw.ylabel # "") }

OpNames == {"plot_mass_fraction_vs_property_in_files", "plot_mass_fractions",
            "plot_mass_fractions_vs_property", "plot_property",
            "plot_property_vs_property", "plot_zone_abundances_vs_nucleon_number"}

NoArgs == [op |-> "", files |-> <<>>, file |-> "", prop |-> "", prop2 |-> "",
           species |-> <<>>, legend_labels |-> None, nucleon |-> "",
           kwargs |-> CHOOSE kw \in KwargsOver({}) : TRUE]

\* The calls of plot_mass_fraction_vs_property_in_files(files, prop, species,
\* legend_labels, **kwargs); species is one string, kept as a list of one.
InFilesCalls ==
    { [NoArgs EXCEPT !.op = "plot_mass_fraction_vs_property_in_files",
                     !.files = fs, !.prop = p, !.species = <<s>>,
                     !.legend_labels = ll, !.kwargs = kw] :
        fs \in SeqsUpTo(Files, MaxFiles), p \in {"time"}, s \in Species,
        ll \in {None} \cup {List(LabelList(n)) : n \in 0..MaxFiles},
        kw \in KwargsOver({"xfactor", "use_latex_names", "xlabel", "ylabel"}) }

\* The calls of the single-file plots.
MFCalls ==
    { [NoArgs EXCEPT !.op = "plot_mass_fractions", !.file = f, !.species = sp,
                     !.kwargs = kw] :
        f \in Files, sp \in SeqsUpTo(Species, MaxSpecies),
        kw \in KwargsOver({"use_latex_names", "xlabel", "ylabel"}) }

MFVPCalls ==
    { [NoArgs EXCEPT !.op = "plot_mass_fractions_vs_property", !.file = f,
                     !.prop = p, !.species = sp, !.kwargs = kw] :
        f \in Files, p \in Props, sp \in SeqsUpTo(Species, MaxSpecies),
        kw \in KwargsOver({"xfactor", "use_latex_names", "xlabel", "ylabel"}) }

PPCalls ==
    { [NoArgs EXCEPT !.op = "plot_property", !.file = f, !.prop = p, !.kwargs = kw] :
        f \in Files, p \in Props, kw \in KwargsOver({"xfactor", "xlabel", "ylabel"}) }

PVPCalls ==
    { [NoArgs EXCEPT !.op = "plot_property_vs_property", !.file = f,
                     !.prop = p, !.prop2 = q, !.kwargs = kw] :
        f \in Files, p \in Props, q \in Props,
        kw \in KwargsOver({"xfactor", "yfactor", "xlabel", "ylabel"}) }

ZACalls ==
    { [NoArgs EXCEPT !.op = "plot_zone_abundances_vs_nucleon_number", !.file = f,
                     !.nucleon = n, !.kwargs = kw] :
        f \in Files, n \in {"z", "a"}, kw \in KwargsOver({"xlabel", "ylabel"}) }

AllCalls == InFilesCalls \cup MFCalls \cup MFVPCalls \cup PPCalls \cup PVPCalls \cup ZACalls

\* the first statement of each function
FirstPc(a) == IF a.op = "plot_zone_abundances_vs_nucleon_number"
                THEN "get_y" ELSE "set_plot_params"

\* ---------------------------------------------------------------- the state
VARIABLES
    args,         \* the arguments of the call in progress
    pc,           \* the statement the call is at
    i,            \* the loop index (0-based, as range() gives it)
    x,            \* the local x (a series)
    y,            \* the local y of the multi-file plot (a series)
    result,       \* a dict the reader returned: name -> series (its arrays are
                  \* the objects the locals x and y refer to)
    latex_names,  \* the dict wu.get_latex_names returned, or empty
    calls,        \* the calls made so far to the collaborators, in order
    outcome       \* "running", "returned", or the error that propagated

vars == <<args, pc, i, x, y, result, latex_names, calls, outcome>>

files == args.files
file == args.file
prop == args.prop
prop1 == args.prop
prop2 == args.prop2
species == args.species
legend_labels == args.legend_labels
kwargs == args.kwargs

\* One call to a collaborator.
Ev(call) == [call |-> call, file |-> "", names |-> <<>>, failed |-> FALSE,
             nargs |-> 0, x |-> <<>>, y |-> <<>>, label |-> <<>>, text |-> ""]

Query(call, f, names) == [Ev(call) EXCEPT !.file = f, !.names = names]
Plot1(ys, lab) == [Ev("plot") EXCEPT !.nargs = 1, !.y = ys, !.label = lab]
Plot2(xs, ys, lab) ==
    [Ev("plot") EXCEPT !.nargs = 2, !.x = xs, !.y = ys, !.label = lab]
SetLabel(axis, text) == [Ev(axis) EXCEPT !.text = text]

\* plp.apply_class_methods(plt, kwargs): every option that names a pyplot
\* method is passed to it; of these the model has xlabel and ylabel.
ApplyClassMethods(kw) ==
    (IF "xlabel" \in kw.keys THEN <<SetLabel("xlabel", kw.xlabel)>> ELSE <<>>)
    \o (IF "ylabel" \in kw.keys THEN <<SetLabel("ylabel", kw.ylabel)>> ELSE <<>>)

\* kwargs['use_latex_names'] == 'yes', tested only when the key is present.
UseLatexNames(kw) ==
    "use_latex_names" \in kw.keys /\ kw.use_latex_names = Str("yes")

\* wu.get_latex_names(names): a dict with one entry per name.
GetLatexNames(names) == [s \in Range(names) |-> LatexName(s)]

EmptyDict == [s \in {} |-> <<>>]

Init ==
    /\ args \in AllCalls
    /\ pc = FirstPc(args)
    /\ i = 0
    /\ x = <<>>
    /\ y = <<>>
    /\ result = EmptyDict
    /\ latex_names = EmptyDict
    /\ calls = <<>>
    /\ outcome = "running"

Running(name, at) == args.op = name /\ pc = at /\ outcome = "running"

Return ==
    /\ pc' = "done"
    /\ outcome' = "returned"

\* ------------------------- plot_mass_fraction_vs_property_in_files (10-77)
InFiles == "plot_mass_fraction_vs_property_in_files"

\* (a variant that walks the list from its end)
FileAtReversed(k) == files[Len(files) - k]

\* the file read in iteration i
FileAt(k) == files[k + 1]

\* the label the series of iteration i is plotted with, if any
InFilesLabel(k) == IF Truthy(legend_labels) THEN <<legend_labels.val[k + 1]>> ELSE <<>>

InFilesSetParams ==
    /\ Running(InFiles, "set_plot_params")
    /\ calls' = Append(calls, Ev("set_plot_params"))
    /\ pc' = "validate"
    /\ UNCHANGED <<args, i, x, y, result, latex_names, outcome>>

\* if legend_labels: if len(legend_labels) != len(files): print(...); return
InFilesInvalidLabels ==
    Truthy(legend_labels) /\ Len(legend_labels.val) # Len(files)

InFilesValidate ==
    /\ Running(InFiles, "validate")
    /\ IF InFilesInvalidLabels
         THEN /\ calls' = Append(calls,
                    [Ev("print") EXCEPT !.text = "Invalid legend labels for input files."])
              /\ Return
         ELSE /\ calls' = Append(calls, Ev("figure"))
              /\ pc' = "loop"
              /\ UNCHANGED outcome
    /\ UNCHANGED <<args, i, x, y, result, latex_names>>

InFilesLoop ==
    /\ Running(InFiles, "loop")
    /\ pc' = IF i < Len(files) THEN "get_x" ELSE "apply"
    /\ UNCHANGED <<args, i, x, y, result, latex_names, calls, outcome>>

InFilesGetX ==
    /\ Running(InFiles, "get_x")
    /\ calls' = Append(calls,
            Query("get_properties_in_zones_as_floats", FileAt(i), <<prop>>))
    /\ x' = PropData(FileAt(i), prop)
    /\ pc' = "scale_x"
    /\ UNCHANGED <<args, i, y, result, latex_names, outcome>>

InFilesScaleX ==
    /\ Running(InFiles, "scale_x")
    /\ x' = IF "xfactor" \in kwargs.keys
              THEN InPlaceDivide(x, kwargs.xfactor) ELSE x
    /\ pc' = "get_y"
    /\ UNCHANGED <<args, i, y, result, latex_names, calls, outcome>>

InFilesGetY ==
    /\ Running(InFiles, "get_y")
    /\ calls' = Append(calls,
            Query("get_mass_fractions_in_zones", FileAt(i), species))
    /\ y' = MassFractionData(FileAt(i), species[1])
    /\ pc' = "plot"
    /\ UNCHANGED <<args, i, x, result, latex_names, outcome>>

InFilesPlot ==
    /\ Running(InFiles, "plot")
    /\ calls' = Append(calls, Plot2(x, y, InFilesLabel(i)))
    /\ i' = i + 1
    /\ pc' = "loop"
    /\ UNCHANGED <<args, x, y, result, latex_names, outcome>>

InFilesApply ==
    /\ Running(InFiles, "apply")
    /\ calls' = calls \o ApplyClassMethods(kwargs)
    /\ pc' = "latex"
    /\ UNCHANGED <<args, i, x, y, result, latex_names, outcome>>

InFilesLatex ==
    /\ Running(InFiles, "latex")
    /\ calls' = IF UseLatexNames(kwargs)
                  THEN calls \o <<Query("get_latex_names", "", species),
                                  SetLabel("ylabel",
                                      "X(" \o GetLatexNames(species)[species[1]] \o ")")>>
                  ELSE calls
    /\ pc' = "legend"
    /\ UNCHANGED <<args, i, x, y, result, latex_names, outcome>>

InFilesLegend ==
    /\ Running(InFiles, "legend")
    /\ calls' = IF Truthy(legend_labels) THEN Append(calls, Ev("legend")) ELSE calls
    /\ pc' = "show"
    /\ UNCHANGED <<args, i, x, y, result, latex_names, outcome>>

InFilesShow ==
    /\ Running(InFiles, "show")
    /\ calls' = Append(calls, Ev("show"))
    /\ Return
    /\ UNCHANGED <<args, i, x, y, result, latex_names>>

\* -------------------------------------------------- plot_mass_fractions (80-142)
MF == "plot_mass_fractions"

\* len(d) of a dict
DictLen(d) == Cardinality(DOMAIN d)

\* (a variant that never uses the resolved names)
SeriesLabelRaw(k) == species[k + 1]

\* lab, the label of the series of species[i] (122-125, 196-199)
SeriesLabel(k) ==
    IF DictLen(latex_names) # 0 THEN latex_names[species[k + 1]] ELSE species[k + 1]

\* (a variant that forgets the resolved name of a single species)
DefaultYLabelNoLatex(sp, names) ==
    IF Len(sp) # 1 THEN "Mass Fraction" ELSE "X(" \o sp[1] \o ")"

\* the y-axis label set when kwargs has no 'ylabel' (128-135, 202-209)
DefaultYLabel(sp, names) ==
    IF Len(sp) # 1 THEN "Mass Fraction"
    ELSE IF DictLen(names) = 0 THEN "X(" \o sp[1] \o ")"
    ELSE "X(" \o names[sp[1]] \o ")"

MFSetParams ==
    /\ Running(MF, "set_plot_params")
    /\ calls' = calls \o <<Ev("set_plot_params"), Ev("figure")>>
    /\ pc' = "get_y"
    /\ UNCHANGED <<args, i, x, y, result, latex_names, outcome>>

MFGetY ==
    /\ Running(MF, "get_y")
    /\ calls' = Append(calls, Query("get_mass_fractions_in_zones", file, species))
    /\ y' = [s \in Range(species) |-> MassFractionData(file, s)]
    /\ pc' = "latex"
    /\ UNCHANGED <<args, i, x, result, latex_names, outcome>>

MFLatex ==
    /\ Running(MF, "latex")
    /\ IF UseLatexNames(kwargs)
         THEN /\ calls' = Append(calls, Query("get_latex_names", "", species))
              /\ latex_names' = GetLatexNames(species)
         ELSE UNCHANGED <<calls, latex_names>>
    /\ pc' = "loop"
    /\ UNCHANGED <<args, i, x, y, result, outcome>>

MFPlot ==
    /\ Running(MF, "loop")
    /\ i < Len(species)
    /\ calls' = Append(calls, Plot1(y[species[i + 1]], <<SeriesLabel(i)>>))
    /\ i' = i + 1
    /\ UNCHANGED <<args, pc, x, y, result, latex_names, outcome>>

MFYLabel ==
    /\ Running(MF, "loop")
    /\ i >= Len(species)
    /\ calls' = IF "ylabel" \notin kwargs.keys
                  THEN Append(calls, SetLabel("ylabel", DefaultYLabel(species, latex_names)))
                  ELSE calls
    /\ pc' = "xlabel"
    /\ UNCHANGED <<args, i, x, y, result, latex_names, outcome>>

MFXLabel ==
    /\ Running(MF, "xlabel")
    /\ calls' = IF "xlabel" \notin kwargs.keys
                  THEN Append(calls, SetLabel("xlabel", "step")) ELSE calls
    /\ pc' = "apply"
    /\ UNCHANGED <<args, i, x, y, result, latex_names, outcome>>

MFApply ==
    /\ Running(MF, "apply")
    /\ calls' = calls \o ApplyClassMethods(kwargs)
    /\ pc' = "show"
    /\ UNCHANGED <<args, i, x, y, result, latex_names, outcome>>

MFShow ==
    /\ Running(MF, "show")
    /\ calls' = Append(calls, Ev("show"))
    /\ Return
    /\ UNCHANGED <<args, i, x, y, result, latex_names>>

\* -------------------------------------- plot_mass_fractions_vs_property (145-219)
MFVP == "plot_mass_fractions_vs_property"

MFVPSetParams ==
    /\ Running(MFVP, "set_plot_params")
    /\ calls' = calls \o <<Ev("set_plot_params"), Ev("figure")>>
    /\ pc' = "get_x"
    /\ UNCHANGED <<args, i, x, y, result, latex_names, outcome>>

MFVPGetX ==
    /\ Running(MFVP, "get_x")
    /\ calls' = Append(calls,
            Query("get_properties_in_zones_as_floats", file, <<prop>>))
    /\ x' = IF "xfactor" \in kwargs.keys
              THEN InPlaceDivide(PropData(file, prop), kwargs.xfactor)
              ELSE PropData(file, prop)
    /\ pc' = "get_y"
    /\ UNCHANGED <<args, i, y, result, latex_names, outcome>>

MFVPGetY ==
    /\ Running(MFVP, "get_y")
    /\ calls' = Append(calls, Query("get_mass_fractions_in_zones", file, species))
    /\ y' = [s \in Range(species) |-> MassFractionData(file, s)]
    /\ pc' = "latex"
    /\ UNCHANGED <<args, i, x, result, latex_names, outcome>>

MFVPLatex ==
    /\ Running(MFVP, "latex")
    /\ IF UseLatexNames(kwargs)
         THEN /\ calls' = Append(calls, Query("get_latex_names", "", species))
              /\ latex_names' = GetLatexNames(species)
         ELSE UNCHANGED <<calls, latex_names>>
    /\ pc' = "loop"
    /\ UNCHANGED <<args, i, x, y, result, outcome>>

MFVPPlot ==
    /\ Running(MFVP, "loop")
    /\ i < Len(species)
    /\ calls' = Append(calls, Plot2(x, y[species[i + 1]], <<SeriesLabel(i)>>))
    /\ i' = i + 1
    /\ UNCHANGED <<args, pc, x, y, result, latex_names, outcome>>

MFVPYLabel ==
    /\ Running(MFVP, "loop")
    /\ i >= Len(species)
    /\ calls' = IF "ylabel" \notin kwargs.keys
                  THEN Append(calls, SetLabel("ylabel", DefaultYLabel(species, latex_names)))
                  ELSE calls
    /\ pc' = "legend"
    /\ UNCHANGED <<args, i, x, y, result, latex_names, outcome>>

\* if len(species) != 1: plt.legend() ; if 'xlabel' not in kwargs: plt.xlabel(prop)
MFVPLegend ==
    /\ Running(MFVP, "legend")
    /\ calls' = calls
                \o (IF Len(species) # 1 THEN <<Ev("legend")>> ELSE <<>>)
                \o (IF "xlabel" \notin kwargs.keys
                      THEN <<SetLabel("xlabel", prop)>> ELSE <<>>)
    /\ pc' = "apply"
    /\ UNCHANGED <<args, i, x, y, result, latex_names, outcome>>

MFVPApply ==
    /\ Running(MFVP, "apply")
    /\ calls' = calls \o ApplyClassMethods(kwargs)
    /\ pc' = "show"
    /\ UNCHANGED <<args, i, x, y, result, latex_names, outcome>>

MFVPShow ==
    /\ Running(MFVP, "show")
    /\ calls' = Append(calls, Ev("show"))
    /\ Return
    /\ UNCHANGED <<args, i, x, y, result, latex_names>>

\* --------------------------------------------------------- plot_property (222-257)
PP == "plot_property"

PPSetParams ==
    /\ Running(PP, "set_plot_params")
    /\ calls' = Append(calls, Ev("set_plot_params"))
    /\ pc' = "get_x"
    /\ UNCHANGED <<args, i, x, y, result, latex_names, outcome>>

PPGetX ==
    /\ Running(PP, "get_x")
    /\ calls' = Append(calls,
            Query("get_properties_in_zones_as_floats", file, <<prop>>))
    /\ x' = IF "xfactor" \in kwargs.keys
              THEN InPlaceDivide(PropData(file, prop), kwargs.xfactor)
              ELSE PropData(file, prop)
    /\ pc' = "apply"
    /\ UNCHANGED <<args, i, y, result, latex_names, outcome>>

PPApply ==
    /\ Running(PP, "apply")
    /\ calls' = calls \o ApplyClassMethods(kwargs)
    /\ pc' = "plot"
    /\ UNCHANGED <<args, i, x, y, result, latex_names, outcome>>

PPPlot ==
    /\ Running(PP, "plot")
    /\ calls' = Append(calls, Plot1(x, <<>>))
    /\ pc' = "show"
    /\ UNCHANGED <<args, i, x, y, result, latex_names, outcome>>

PPShow ==
    /\ Running(PP, "show")
    /\ calls' = Append(calls, Ev("show"))
    /\ Return
    /\ UNCHANGED <<args, i, x, y, result, latex_names>>

\* --------------------------------------------- plot_property_vs_property (260-306)
\* result is the dict the reader returned; x and y are references to its
\* arrays, held here as the keys they were taken from, so that  x /= ...
\* changes the array in result that x refers to.
PVP == "plot_property_vs_property"

PVPSetParams ==
    /\ Running(PVP, "set_plot_params")
    /\ calls' = Append(calls, Ev("set_plot_params"))
    /\ pc' = "get_result"
    /\ UNCHANGED <<args, i, x, y, result, latex_names, outcome>>

PVPGetResult ==
    /\ Running(PVP, "get_result")
    /\ calls' = Append(calls,
            Query("get_properties_in_zones_as_floats", file, <<prop1, prop2>>))
    /\ result' = [p \in {prop1, prop2} |-> PropData(file, p)]
    /\ pc' = "scale_x"
    /\ UNCHANGED <<args, i, x, y, latex_names, outcome>>

PVPScaleX ==
    /\ Running(PVP, "scale_x")
    /\ x' = prop1
    /\ result' = IF "xfactor" \in kwargs.keys
                   THEN [result EXCEPT ![prop1] = InPlaceDivide(@, kwargs.xfactor)]
                   ELSE result
    /\ pc' = "scale_y"
    /\ UNCHANGED <<args, i, y, latex_names, calls, outcome>>

PVPScaleY ==
    /\ Running(PVP, "scale_y")
    /\ y' = prop2
    /\ result' = IF "yfactor" \in kwargs.keys
                   THEN [result EXCEPT ![prop2] = InPlaceDivide(@, kwargs.yfactor)]
                   ELSE result
    /\ pc' = "apply"
    /\ UNCHANGED <<args, i, x, latex_names, calls, outcome>>

PVPApply ==
    /\ Running(PVP, "apply")
    /\ calls' = calls \o ApplyClassMethods(kwargs)
    /\ pc' = "plot"
    /\ UNCHANGED <<args, i, x, y, result, latex_names, outcome>>

PVPPlot ==
    /\ Running(PVP, "plot")
    /\ calls' = Append(calls, Plot2(result[x], result[y], <<>>))
    /\ pc' = "show"
    /\ UNCHANGED <<args, i, x, y, result, latex_names, outcome>>

PVPShow ==
    /\ Running(PVP, "show")
    /\ calls' = Append(calls, Ev("show"))
    /\ Return
    /\ UNCHANGED <<args, i, x, y, result, latex_names>>

\* -------------------------------- plot_zone_abundances_vs_nucleon_number (309-345)
ZA == "plot_zone_abundances_vs_nucleon_number"

ZAGetY ==
    /\ Running(ZA, "get_y")
    /\ calls' = Append(calls,
            Query("get_abundances_vs_nucleon_number_in_zones", file, <<args.nucleon>>))
    /\ y' = AbundanceData(file, args.nucleon)
    /\ pc' = "apply"
    /\ UNCHANGED <<args, i, x, result, latex_names, outcome>>

ZAApply ==
    /\ Running(ZA, "apply")
    /\ calls' = calls \o ApplyClassMethods(kwargs)
    /\ pc' = "plot"
    /\ UNCHANGED <<args, i, x, y, result, latex_names, outcome>>

\* plt.plot(y[0]); plt.show()
ZAPlot ==
    /\ Running(ZA, "plot")
    /\ calls' = calls \o <<Plot1(y[1], <<>>), Ev("show")>>
    /\ Return
    /\ UNCHANGED <<args, i, x, y, result, latex_names>>

\* --------------------------------------------- a reader call that raises
\* The reader cannot resolve the dataset, the property or the species: the
\* call it was asked is made, and its exception propagates out of the plot.
PendingQuery ==
    IF args.op = InFiles
      THEN IF pc = "get_x"
             THEN Query("get_properties_in_zones_as_floats", FileAt(i), <<prop>>)
             ELSE Query("get_mass_fractions_in_zones", FileAt(i), species)
    ELSE IF args.op = ZA
      THEN Query("get_abundances_vs_nucleon_number_in_zones", file, <<args.nucleon>>)
    ELSE IF pc = "get_x"
      THEN Query("get_properties_in_zones_as_floats", file, <<prop>>)
    ELSE IF pc = "get_result"
      THEN Query("get_properties_in_zones_as_floats", file, <<prop1, prop2>>)
    ELSE Query("get_mass_fractions_in_zones", file, species)

QueryPcs == {"get_x", "get_y", "get_result"}

ReaderRaises ==
    /\ outcome = "running"
    /\ pc \in QueryPcs
    /\ calls' = Append(calls, [PendingQuery EXCEPT !.failed = TRUE])
    /\ pc' = "done"
    /\ outcome' = "DataAccessError"
    /\ UNCHANGED <<args, i, x, y, result, latex_names>>

Next ==
    \/ InFilesSetParams
    \/ InFilesValidate
    \/ InFilesLoop
    \/ InFilesGetX
    \/ InFilesScaleX
    \/ InFilesGetY
    \/ InFilesPlot
    \/ InFilesApply
    \/ InFilesLatex
    \/ InFilesLegend
    \/ InFilesShow
    \/ MFSetParams
    \/ MFGetY
    \/ MFLatex
    \/ MFPlot
    \/ MFYLabel
    \/ MFXLabel
    \/ MFApply
    \/ MFShow
    \/ MFVPSetParams
    \/ MFVPGetX
    \/ MFVPGetY
    \/ MFVPLatex
    \/ MFVPPlot
    \/ MFVPYLabel
    \/ MFVPLegend
    \/ MFVPApply
    \/ MFVPShow
    \/ PPSetParams
    \/ PPGetX
    \/ PPApply
    \/ PPPlot
    \/ PPShow
    \/ PVPSetParams
    \/ PVPGetResult
    \/ PVPScaleX
    \/ PVPScaleY
    \/ PVPApply
    \/ PVPPlot
    \/ PVPShow
    \/ ZAGetY
    \/ ZAApply
    \/ ZAPlot
    \/ ReaderRaises

Spec == Init /\ [][Next]_vars


\* =================================================================== claims
DataQueries == {"get_properties_in_zones_as_floats", "get_mass_fractions_in_zones"}
RenderCalls == {"figure", "plot", "legend", "show"}

HasCall(name) == \E k \in DOMAIN calls : calls[k].call = name
IsPlot(e) == e.call = "plot"
IsDataOrPlot(e) == e.call \in DataQueries \cup {"plot"}
Plots == SelectSeq(calls, IsPlot)
Shown == HasCall("show")

\* the label in effect on an axis: the text of the last call that set it
LabelInEffect(axis) ==
    LET set == {k \in DOMAIN calls : calls[k].call = axis}
    IN  IF set = {} THEN <<>>
        ELSE <<calls[CHOOSE k \in set : \A m \in set : m <= k].text>>

\* C1: in plot_mass_fraction_vs_property_in_files, whenever a legend_labels
\* list is supplied (the empty list included) whose length differs from the
\* number of files, no data query and no rendering call is ever made, and the
\* call ends with the diagnostic.
C1_MismatchedLabelsAbortBeforeAnyCall ==
    (args.op = InFiles /\ legend_labels.some /\ Len(legend_labels.val) # Len(files))
        => /\ \A k \in DOMAIN calls : calls[k].call \notin DataQueries \cup RenderCalls
           /\ (pc = "done" => HasCall("print"))

\* C2: in every plot operation, once the chart is shown, a legend has been
\* requested whenever more than one series was drawn.
C2_LegendWheneverSeveralSeries ==
    (Shown /\ Len(Plots) > 1) => HasCall("legend")

\* C3: in plot_mass_fraction_vs_property_in_files, when the reader fails on
\* some file, no series has been plotted and nothing has been shown.
C3_ReaderFailureBeforeAnyPlot ==
    (args.op = InFiles /\ outcome = "DataAccessError")
        => ~HasCall("plot") /\ ~HasCall("show")

\* the y-axis caption the claim C4 words, from the arguments alone
C4_Caption ==
    IF Len(species) > 1 THEN "Mass Fraction"
    ELSE "X(" \o (IF UseLatexNames(kwargs) THEN LatexName(species[1]) ELSE species[1])
              \o ")"

\* C4: in plot_mass_fractions and plot_mass_fractions_vs_property called
\* without a 'ylabel' option, the y-axis label in effect when the chart is
\* shown is 'Mass Fraction' for more than one species and 'X(<label>)' for
\* exactly one, <label> being the resolved name when use_latex_names is 'yes'
\* and the raw identifier otherwise.
C4_DefaultYLabel ==
    (args.op \in {MF, MFVP} /\ Shown /\ "ylabel" \notin kwargs.keys /\ Len(species) >= 1)
        => LabelInEffect("ylabel") = <<C4_Caption>>

C4_Witness ==
    /\ args.op = MFVP /\ Shown /\ "ylabel" \notin kwargs.keys
    /\ species = <<"c12">> /\ UseLatexNames(kwargs)
    /\ LabelInEffect("ylabel") = <<"X($^{12}$C)">>

\* C5: in every plot operation, a caller-supplied 'xlabel' or 'ylabel' is the
\* label in effect on that axis when a chart of at least one series is shown.
C5_ExplicitLabelsWin ==
    (Shown /\ Len(Plots) >= 1) => /\ ("xlabel" \in kwargs.keys => LabelInEffect("xlabel") = <<kwargs.xlabel>>)
             /\ ("ylabel" \in kwargs.keys => LabelInEffect("ylabel") = <<kwargs.ylabel>>)

\* C6: in plot_mass_fraction_vs_property_in_files the reader calls and the
\* plot calls come file by file in the order of files: for the k-th file the
\* property query, then the mass-fraction query, then the plot of that file's
\* series (with legend_labels[k] when that label exists), nothing of a later
\* file before; a call that returns normally has plotted one series per file.
C6_FileOrder ==
    args.op = InFiles =>
        LET seq == SelectSeq(calls, IsDataOrPlot)
        IN  /\ \A j \in 1..Len(seq) :
                 LET k == ((j - 1) \div 3) + 1
                     r == (j - 1) % 3
                     e == seq[j]
                 IN  /\ k <= Len(files)
                     /\ e.failed => j = Len(seq)
                     /\ r = 0 => /\ e.call = "get_properties_in_zones_as_floats"
                                 /\ e.file = files[k]
                                 /\ e.names = <<prop>>
                     /\ r = 1 => /\ e.call = "get_mass_fractions_in_zones"
                                 /\ e.file = files[k]
                                 /\ e.names = species
                     /\ r = 2 => /\ e.call = "plot"
                                 /\ e.y = MassFractionData(files[k], species[1])
                                 /\ (legend_labels.some /\ k <= Len(legend_labels.val)
                                        => e.label = <<legend_labels.val[k]>>)
            /\ Shown => Len(seq) = 3 * Len(files)

C6_Witness ==
    /\ args.op = InFiles /\ outcome = "returned" /\ Shown
    /\ Len(files) = 3 /\ files[1] # files[2]
    /\ legend_labels.some /\ Len(Plots) = 3
    /\ Plots[2].label = <<"second">>

\* the override of the k-th series: its legend label, where one is supplied
C7_Override(k) ==
    IF args.op = InFiles /\ legend_labels.some /\ k <= Len(legend_labels.val)
      THEN <<legend_labels.val[k]>> ELSE <<>>

\* the species the k-th series is of
C7_Identifier(k) == IF args.op = InFiles THEN species[1] ELSE species[k]

\* symbolic naming requested by a true use_latex_names option
C7_SymbolicRequested ==
    "use_latex_names" \in kwargs.keys
        /\ kwargs.use_latex_names \in {Bool(TRUE), Str("yes")}

C8_ZeroFactor ==
    \/ args.op \in {InFiles, MFVP, PP, PVP}
         /\ "xfactor" \in kwargs.keys /\ kwargs.xfactor = 0
    \/ args.op = PVP /\ "yfactor" \in kwargs.keys /\ kwargs.yfactor = 0

\* C8: a supplied scale factor of 0 aborts the plot: the divided series is
\* never plotted and nothing is shown.
C8_ZeroFactorAborts ==
    C8_ZeroFactor => ~HasCall("plot") /\ ~Shown

\* C9: without an 'xlabel' option, the x-axis label in effect when a chart of
\* at least one series is shown is the x property name in the plots against
\* a property, and 'step' in plot_mass_fractions.
C9_DefaultXLabel ==
    (Shown /\ Len(Plots) >= 1 /\ "xlabel" \notin kwargs.keys) =>
        /\ args.op = MF => LabelInEffect("xlabel") = <<"step">>
        /\ args.op \in {MFVP, InFiles, PVP} => LabelInEffect("xlabel") = <<prop>>

\* a series of the reader divided once by an option, if that option is given
C10_ScaledOnce(series, key, factor) ==
    IF key \in kwargs.keys
      THEN [z \in 1..Len(series) |-> Div(series[z], ToFloat(factor))]
      ELSE series

\* C10: with non-zero factors, every x series handed to the backend is the
\* reader's series divided by xfactor exactly once (or untouched without
\* xfactor), and in plot_property_vs_property the y series likewise by yfactor.
C10_ScaledExactlyOnce ==
  ~C8_ZeroFactor =>
    /\ args.op = PVP =>
         \A k \in 1..Len(Plots) :
            /\ Plots[k].x = C10_ScaledOnce(PropData(file, prop1), "xfactor", kwargs.xfactor)
            /\ Plots[k].y = C10_ScaledOnce(PropData(file, prop2), "yfactor", kwargs.yfactor)
    /\ args.op = InFiles =>
         \A k \in 1..Len(Plots) :
            /\ Plots[k].x = C10_ScaledOnce(PropData(files[k], prop), "xfactor", kwargs.xfactor)
            /\ Plots[k].y = MassFractionData(files[k], species[1])
    /\ args.op = MFVP =>
         \A k \in 1..Len(Plots) :
            Plots[k].x = C10_ScaledOnce(PropData(file, prop), "xfactor", kwargs.xfactor)
    /\ args.op = PP =>
         \A k \in 1..Len(Plots) :
            Plots[k].y = C10_ScaledOnce(PropData(file, prop), "xfactor", kwargs.xfactor)

====
